---------------------------- MODULE Spec2Model ----------------------------
(***************************************************************************)
(* Model of the crypto-visual-explorer step-trace engine and of the        *)
(* playback sequencer of the StepVisualizer component (the rich variant,   *)
(* src/src/components/StepVisualizer.tsx lines 1-1744).                    *)
(*                                                                         *)
(* Strings are sequences of UTF-16 code units (naturals).  A step record   *)
(* keeps the fields id, title, input and output of the source's Step       *)
(* interface; description, explanation and the visualization payload are  *)
(* display-only and are not modelled.  Step ids are kept in tenths         *)
(* (id 3.1 is 31) because the Feistel generator emits fractional ids.      *)
(***************************************************************************)
EXTENDS Integers, Sequences, FiniteSets, TLC

(***************************************************************************)
(* Bounds of the model.                                                    *)
(***************************************************************************)
MaxInputLen == 9
MaxLoads == 2
MaxUserEvents == 3

(***************************************************************************)
(* String helpers (JavaScript String methods used by the generators).      *)
(***************************************************************************)
Min(a, b) == IF a < b THEN a ELSE b
Max(a, b) == IF a > b THEN a ELSE b

\* s.substring(from, to) with 0-based from, exclusive to
Substring(s, from, to) ==
  LET f == Min(Max(from, 0), Len(s))
      t == Min(Max(to, 0), Len(s))
  IN  SubSeq(s, Min(f, t) + 1, Max(f, t))

\* PadEnd without the padding
PadEndNone(s, n) == s

\* s.padEnd(n, ' ')
PadEnd(s, n) ==
  IF Len(s) >= n THEN s ELSE s \o [i \in 1..(n - Len(s)) |-> 32]

\* s.split('').reverse().join('')
Reverse(s) == [i \in 1..Len(s) |-> s[Len(s) + 1 - i]]

\* parts.join(sep)
RECURSIVE Join(_, _)
Join(parts, sep) ==
  IF Len(parts) = 0 THEN <<>>
  ELSE IF Len(parts) = 1 THEN parts[1]
  ELSE parts[1] \o sep \o Join(Tail(parts), sep)

\* Number.prototype.toString(radix) for a non-negative integer
RECURSIVE Digits(_, _)
Digits(n, radix) ==
  LET d == n % radix
      c == IF d < 10 THEN 48 + d ELSE 97 + (d - 10)
  IN  IF n < radix THEN <<c>> ELSE Digits(n \div radix, radix) \o <<c>>

\* `${n}` for a non-negative integer
Dec(n) == Digits(n, 10)

\* s.toUpperCase() on the characters toString(16) can produce
ToUpperCase(s) == [i \in 1..Len(s) |-> IF s[i] >= 97 /\ s[i] <= 122 THEN s[i] - 32 ELSE s[i]]

\* PadStart0 without the padding
PadStart0None(s, n) == s

\* s.padStart(n, '0')
PadStart0(s, n) ==
  IF Len(s) >= n THEN s ELSE [i \in 1..(n - Len(s)) |-> 48] \o s

\* the ^ operator on non-negative integers
RECURSIVE BitXor(_, _)
BitXor(a, b) ==
  IF a = 0 THEN b
  ELSE IF b = 0 THEN a
  ELSE (((a % 2) + (b % 2)) % 2) + 2 * BitXor(a \div 2, b \div 2)

\* Array.prototype.reduce((sum, val) => sum + val, 0)
RECURSIVE Sum(_)
Sum(s) == IF Len(s) = 0 THEN 0 ELSE Head(s) + Sum(Tail(s))

(***************************************************************************)
(* Buffer.from(str).toString('base64'): UTF-8 encode the string, then      *)
(* base64 with '=' padding.                                                *)
(***************************************************************************)
Base64Alphabet ==
  <<65, 66, 67, 68, 69, 70, 71, 72, 73, 74, 75, 76, 77, 78, 79, 80, 81, 82,
    83, 84, 85, 86, 87, 88, 89, 90, 97, 98, 99, 100, 101, 102, 103, 104, 105,
    106, 107, 108, 109, 110, 111, 112, 113, 114, 115, 116, 117, 118, 119, 120,
    121, 122, 48, 49, 50, 51, 52, 53, 54, 55, 56, 57, 43, 47>>

Utf8Char(c) ==
  IF c < 128 THEN <<c>>
  ELSE IF c < 2048 THEN <<192 + (c \div 64), 128 + (c % 64)>>
  ELSE IF c >= 55296 /\ c <= 57343 THEN <<239, 191, 189>>
  ELSE <<224 + (c \div 4096), 128 + ((c \div 64) % 64), 128 + (c % 64)>>

RECURSIVE Utf8(_)
Utf8(s) == IF Len(s) = 0 THEN <<>> ELSE Utf8Char(Head(s)) \o Utf8(Tail(s))

RECURSIVE Base64Bytes(_)
Base64Bytes(b) ==
  IF Len(b) = 0 THEN <<>>
  ELSE IF Len(b) = 1 THEN
    <<Base64Alphabet[(b[1] \div 4) + 1],
      Base64Alphabet[((b[1] % 4) * 16) + 1], 61, 61>>
  ELSE IF Len(b) = 2 THEN
    <<Base64Alphabet[(b[1] \div 4) + 1],
      Base64Alphabet[((b[1] % 4) * 16 + (b[2] \div 16)) + 1],
      Base64Alphabet[((b[2] % 16) * 4) + 1], 61>>
  ELSE
    <<Base64Alphabet[(b[1] \div 4) + 1],
      Base64Alphabet[((b[1] % 4) * 16 + (b[2] \div 16)) + 1],
      Base64Alphabet[((b[2] % 16) * 4 + (b[3] \div 64)) + 1],
      Base64Alphabet[(b[3] % 64) + 1]>> \o Base64Bytes(SubSeq(b, 4, Len(b)))

Base64(s) == Base64Bytes(Utf8(s))

(***************************************************************************)
(* Literal text of the snapshots.                                          *)
(***************************************************************************)
SepBar == <<32, 124, 32>>                    \* ' | '
SepComma == <<44>>                           \* ','
SepCommaSpace == <<44, 32>>                  \* ', '
SepPlus == <<32, 43, 32>>                    \* ' + '
LitChecksum == <<67, 104, 101, 99, 107, 115, 117, 109, 58, 32>>  \* 'Checksum: '
SepArrow == <<32, 8594, 32>>                 \* ' -> ' (U+2192)
LitK16 == <<32, 8594, 32, 46, 46, 46, 32, 8594, 32, 75, 49, 54>> \* ' -> ... -> K16'
LitXorK == <<32, 8853, 32, 75>>              \* ' (+) K' (U+2295)
LitER == <<69, 40, 82>>                      \* 'E(R'
LitParenColon == <<41, 58, 32>>              \* '): '
LitColon == <<58, 32>>                       \* ': '
LitCommaR == <<44, 32, 82>>                  \* ', R'
LitL == <<76>>                               \* 'L'
LitR == <<82>>                               \* 'R'
LitEllipsis == <<46, 46, 46>>                \* '...'
LitNewline == <<10>>                         \* '\n'
LitKeyScheduleGenerated ==                   \* 'Key schedule generated for all rounds'
  <<75, 101, 121, 32, 115, 99, 104, 101, 100, 117, 108, 101, 32, 103, 101,
    110, 101, 114, 97, 116, 101, 100, 32, 102, 111, 114, 32, 97, 108, 108,
    32, 114, 111, 117, 110, 100, 115>>

Step(id10, title, input, output) ==
  [id |-> id10, title |-> title, input |-> input, output |-> output]

(***************************************************************************)
(* generateChecksumSteps                                                   *)
(***************************************************************************)
ChunkSize == 8

\* for (let i = 0; i < input.length; i += 8) chunks.push(input.substring(i, i + 8))
RECURSIVE ChunksFrom(_, _)
\* the chunk loop with every chunk padded to the chunk width
ChunksFromPadded(input, i) ==
  IF i < Len(input)
  THEN <<PadEnd(Substring(input, i, i + ChunkSize), ChunkSize)>>
         \o ChunksFrom(input, i + ChunkSize)
  ELSE <<>>

ChunksFrom(input, i) ==
  IF i < Len(input)
  THEN <<Substring(input, i, i + ChunkSize)>> \o ChunksFrom(input, i + ChunkSize)
  ELSE <<>>

Chunks(input) == ChunksFrom(input, 0)

\* chunk.split('').map(char => char.charCodeAt(0)) is the chunk itself in this
\* representation; its rendering is chunk.join(',')
AsciiJoin(chunk) == Join([i \in 1..Len(chunk) |-> Dec(chunk[i])], SepComma)

\* ChunkSums with the k-th chunk's sum weighted by k
ChunkSumsWeighted(input) == [k \in 1..Len(Chunks(input)) |-> k * Sum(Chunks(input)[k])]

ChunkSums(input) == [k \in 1..Len(Chunks(input)) |-> Sum(Chunks(input)[k])]

TotalSum(input) == Sum(ChunkSums(input))

\* BitNot as the arithmetic negation
BitNotNegate(n) == 0 - n

\* ~n for n in the int32 range (every sum of the model is): -(n + 1)
BitNot(n) == (0 - n) - 1

\* n & 0xFFFF: the low 16 bits of the two's complement of n
BitAnd16(n) == n % 65536

\* (~totalSum) & 0xFFFF
Checksum(input) == BitAnd16(BitNot(TotalSum(input)))

ChecksumHex(input) == PadStart0(ToUpperCase(Digits(Checksum(input), 16)), 4)

generateChecksumSteps(input) ==
  LET chunks == Chunks(input)
      asciiOut == Join([k \in 1..Len(chunks) |-> AsciiJoin(chunks[k])], SepBar)
      chunkSums == ChunkSums(input)
      sumStrs == [k \in 1..Len(chunkSums) |-> Dec(chunkSums[k])]
  IN  << Step(10, "Step 1: Break Data into Chunks", input, Join(chunks, SepBar)),
         Step(20, "Step 2: Convert to ASCII Values", Join(chunks, SepBar), asciiOut),
         Step(30, "Step 3: Sum Each Chunk", asciiOut, Join(sumStrs, SepCommaSpace)),
         Step(40, "Step 4: Calculate Final Checksum", Join(sumStrs, SepPlus),
              LitChecksum \o ChecksumHex(input)) >>

(***************************************************************************)
(* Free identifiers of the rich variant.  generateDESSteps and             *)
(* generateAESSteps read Buffer (lines 315, 680), and generateAESSteps     *)
(* reads afterMixColumnsMatrix at line 660, outside the block (lines       *)
(* 568-607) whose const declares it.  Neither is declared or imported by   *)
(* the module, so whether the read succeeds depends on what the build and  *)
(* the host define: a host without the name raises a ReferenceError.  env  *)
(* is the set of these names that resolve.                                 *)
(***************************************************************************)
FreeIdentifiers == {"Buffer", "afterMixColumnsMatrix"}

(***************************************************************************)
(* generateDESSteps                                                        *)
(***************************************************************************)
DESKey == <<67, 82, 89, 80, 84, 79, 48, 49>>       \* "CRYPTO01"
DESBlock == 8
DESRounds == 3

DESPadded(input) == Substring(PadEnd(input, DESBlock), 0, DESBlock)

\* subkeys[i] with the 1-based round number added
SubkeyOfRound(i) == [j \in 1..Len(DESKey) |-> (DESKey[j] + i + 1) % 256]

\* subkeys[i], i = 0..2
Subkey(i) == [j \in 1..Len(DESKey) |-> (DESKey[j] + i) % 256]

Subkeys == [i \in 1..3 |-> Subkey(i - 1)]

\* one iteration of the round loop on currentData
DESRound(currentData, round) ==
  LET left == Substring(currentData, 0, 4)
      right == Substring(currentData, 4, Len(currentData))
      newRight == left
      expandedRight == right \o Substring(right, 0, 1)
      subkey == Subkeys[round]
      xorResult == [i \in 1..Len(expandedRight) |->
                      BitXor(expandedRight[i], subkey[((i - 1) % Len(subkey)) + 1])]
      substituted == [i \in 1..Len(xorResult) |->
                        (xorResult[i] + (i - 1) + round) % 256]
      permuted == Reverse(substituted)
      newLeft == [i \in 1..Len(right) |->
                    BitXor(right[i], permuted[((i - 1) % Len(permuted)) + 1])]
      n == ToString(round + 2)
      r == ToString(round)
      rPrev == LitR \o Dec(round - 1)
      eR == LitER \o Dec(round - 1) \o LitParenColon \o expandedRight
  IN  [steps |->
         << Step((round + 2) * 10,
                 "Step " \o n \o ": Round " \o r \o " - Expansion",
                 rPrev \o LitColon \o right, eR),
            Step((round + 2) * 10 + 1,
                 "Step " \o n \o ".1: Round " \o r \o " - Key XOR",
                 eR \o LitXorK \o Dec(round) \o LitColon \o subkey, xorResult),
            Step((round + 2) * 10 + 2,
                 "Step " \o n \o ".2: Round " \o r \o " - S-Box Substitution",
                 xorResult, substituted),
            Step((round + 2) * 10 + 3,
                 "Step " \o n \o ".3: Round " \o r \o " - P-Box Permutation",
                 substituted, permuted),
            Step((round + 2) * 10 + 4,
                 "Step " \o n \o ".4: Round " \o r \o " - Feistel Function Result",
                 LitL \o Dec(round - 1) \o LitColon \o left \o LitCommaR
                   \o Dec(round - 1) \o LitColon \o right,
                 LitL \o Dec(round) \o LitColon \o newLeft \o LitCommaR
                   \o Dec(round) \o LitColon \o newRight) >>,
       currentData |-> newLeft \o newRight]

\* the final permutation step pushed after the loop, and the return
DESFinalStep(steps, currentData, action) ==
  steps \o
  << Step((Len(steps) + 1) * 10,
          "Final Step: Reverse Initial Permutation (IP-1)",
          currentData,
          IF action = "encrypt"
          THEN Substring(Base64(Reverse(currentData)), 0, 12) \o LitEllipsis
          ELSE Reverse(currentData)) >>

\* for (let round = 1; round <= 3; round++) { ... } followed by the final step;
\* steps and currentData are the loop's variables
RECURSIVE DESLoop(_, _, _, _)
DESPush(steps, this, round, action) ==
  DESLoop(steps \o this.steps, this.currentData, round + 1, action)

DESLoop(steps, currentData, round, action) ==
  IF round > DESRounds THEN DESFinalStep(steps, currentData, action)
  ELSE DESPush(steps, DESRound(currentData, round), round, action)

\* generateDESSteps with decrypt starting the rounds from the block before
\* the initial permutation
generateDESStepsInverting(input, action) ==
  DESLoop(<< Step(10, "Step 1: Initial Permutation (IP)",
                  DESPadded(input), Reverse(DESPadded(input))),
             Step(20, "Step 2: Key Schedule Generation",
                  DESKey, Join(SubSeq(Subkeys, 1, 3), SepArrow) \o LitK16) >>,
          IF action = "decrypt" THEN DESPadded(input)
          ELSE Reverse(DESPadded(input)), 1, action)

generateDESSteps(input, action) ==
  DESLoop(<< Step(10, "Step 1: Initial Permutation (IP)",
                  DESPadded(input), Reverse(DESPadded(input))),
             Step(20, "Step 2: Key Schedule Generation",
                  DESKey, Join(SubSeq(Subkeys, 1, 3), SepArrow) \o LitK16) >>,
          Reverse(DESPadded(input)), 1, action)

\* the free identifiers generateDESSteps reads on its way to the return
DESReads(action) == IF action = "encrypt" THEN {"Buffer"} ELSE {}

(***************************************************************************)
(* generateAESSteps                                                        *)
(***************************************************************************)
AESKey == <<67, 82, 89, 80, 84, 79, 71, 82, 65, 80, 72, 89, 95, 75, 69, 89>>  \* "CRYPTOGRAPHY_KEY"
AESBlock == 16
AESRoundsFour == DESRounds + 1
AESRounds == 3

AESPadded(input) == Substring(PadEnd(input, AESBlock), 0, AESBlock)

\* the 4x4 matrix loops: row i holds s[4i..4i+3], ' ' past the end
MatrixRows(s) ==
  [i \in 1..4 |-> [j \in 1..4 |->
     LET index == (i - 1) * 4 + (j - 1)
     IN  IF index < Len(s) THEN s[index + 1] ELSE 32]]

\* the ShiftRows loops (lines 510-519): position (row, col) appends
\* stateChars[originalIndex] whenever newIndex is inside the state
RECURSIVE ShiftRowsFrom(_, _)
ShiftRowsFrom(stateChars, k) ==
  IF k >= 16 THEN <<>>
  ELSE LET row == k \div 4
           col == k % 4
           newCol == (col + row) % 4
           originalIndex == row * 4 + col
           newIndex == row * 4 + newCol
       IN  (IF newIndex < Len(stateChars)
            THEN <<stateChars[originalIndex + 1]>> ELSE <<>>)
           \o ShiftRowsFrom(stateChars, k + 1)

ShiftRows(stateChars) == ShiftRowsFrom(stateChars, 0)

SubBytes(state, round) == [i \in 1..Len(state) |-> (state[i] + round) % 256]

\* MixColumns without the round constant
MixColumnsNoRound(state, round) == [i \in 1..Len(state) |-> (state[i] * 2) % 256]

MixColumns(state, round) == [i \in 1..Len(state) |-> (state[i] * 2 + round) % 256]

RoundKey(round) ==
  [i \in 1..Len(AESKey) |-> BitXor(AESKey[i], 43 + round + (i - 1))]

AddRoundKey(state, roundKey) ==
  [i \in 1..Len(state) |-> BitXor(state[i], roundKey[((i - 1) % Len(roundKey)) + 1])]

\* one iteration of the round loop; n is steps.length on entry
AESRound(currentState, round, n) ==
  LET afterSubBytes == SubBytes(currentState, round)
      afterShiftRows == ShiftRows(afterSubBytes)
      mixed == round < AESRounds
      afterMixColumns == MixColumns(afterShiftRows, round)
      state2 == IF mixed THEN afterMixColumns ELSE afterShiftRows
      afterAddRoundKey == AddRoundKey(state2, RoundKey(round))
      r == ToString(round)
      sub == << Step((n + 1) * 10,
                     "Step " \o ToString(n + 1) \o ": SubBytes (Round " \o r \o ")",
                     currentState, afterSubBytes),
                Step((n + 2) * 10,
                     "Step " \o ToString(n + 2) \o ": ShiftRows (Round " \o r \o ")",
                     afterSubBytes, afterShiftRows) >>
      mix == IF mixed
             THEN << Step((n + 3) * 10,
                          "Step " \o ToString(n + 3) \o ": MixColumns (Round " \o r \o ")",
                          afterShiftRows, afterMixColumns) >>
             ELSE <<>>
      m == n + 2 + Len(mix)
  IN  [steps |-> sub \o mix \o
         << Step((m + 1) * 10,
                 "Step " \o ToString(m + 1) \o ": AddRoundKey (Round " \o r \o ")",
                 state2, afterAddRoundKey) >>,
       currentState |-> afterAddRoundKey]

AESFinalResult(currentState, action) ==
  IF action = "encrypt" THEN Base64(currentState) ELSE currentState

\* steps[steps.length - 1].output = finalResult; return steps
AESFinish(steps, currentState, action) ==
  [steps EXCEPT ![Len(steps)].output = AESFinalResult(currentState, action)]

\* for (let round = 1; round <= 3; round++) { ... } followed by the final
\* result; steps and currentState are the loop's variables
RECURSIVE AESLoop(_, _, _, _)
\* AESPush with currentState left at the state the round started from
AESPushStale(steps, this, round, action) ==
  AESLoop(steps \o this.steps, this.steps[1].input, round + 1, action)

AESPush(steps, this, round, action) ==
  AESLoop(steps \o this.steps, this.currentState, round + 1, action)

AESLoop(steps, currentState, round, action) ==
  IF round > AESRounds THEN AESFinish(steps, currentState, action)
  ELSE AESPush(steps, AESRound(currentState, round, Len(steps)), round, action)

AESHead(paddedInput, afterAddRoundKey) ==
  << Step(10, "Step 1: Convert Input to State Matrix",
          paddedInput, Join(MatrixRows(paddedInput), LitNewline)),
     Step(20, "Step 2: Key Expansion",
          Substring(AESKey, 0, 16), LitKeyScheduleGenerated),
     Step(30, "Step 3: Initial AddRoundKey", paddedInput, afterAddRoundKey) >>

generateAESSteps(input, action) ==
  AESLoop(AESHead(AESPadded(input), AddRoundKey(AESPadded(input), AESKey)),
          AddRoundKey(AESPadded(input), AESKey), 1, action)

\* the free identifiers generateAESSteps reads on its way to the return:
\* afterMixColumnsMatrix in round 1 (round < 3), Buffer for action encrypt
AESReads(action) ==
  {"afterMixColumnsMatrix"} \cup (IF action = "encrypt" THEN {"Buffer"} ELSE {})

(***************************************************************************)
(* generateSteps: the dispatcher.  The outcome is the returned step list,  *)
(* or a throw when a generator reads a free identifier that does not       *)
(* resolve.                                                                *)
(***************************************************************************)
SupportedAlgorithms == {"aes", "des", "checksum"}

Returned(steps) == [kind |-> "return", steps |-> steps]
Thrown == [kind |-> "throw", steps |-> <<>>]

\* generateSteps with the checksum generator reading the text backwards in
\* decrypt mode
generateStepsByMode(algorithm, input, action, env) ==
  CASE algorithm = "checksum" ->
         Returned(generateChecksumSteps(
           IF action = "decrypt" THEN Reverse(input) ELSE input))
    [] algorithm = "des" ->
         IF DESReads(action) \subseteq env
         THEN Returned(generateDESSteps(input, action)) ELSE Thrown
    [] algorithm = "aes" ->
         IF AESReads(action) \subseteq env
         THEN Returned(generateAESSteps(input, action)) ELSE Thrown
    [] OTHER -> Returned(<<>>)

generateSteps(algorithm, input, action, env) ==
  CASE algorithm = "checksum" -> Returned(generateChecksumSteps(input))
    [] algorithm = "des" ->
         IF DESReads(action) \subseteq env
         THEN Returned(generateDESSteps(input, action)) ELSE Thrown
    [] algorithm = "aes" ->
         IF AESReads(action) \subseteq env
         THEN Returned(generateAESSteps(input, action)) ELSE Thrown
    [] OTHER -> Returned(<<>>)

(***************************************************************************)
(* The StepVisualizer component: props, hook state, the two effects and    *)
(* the armed intervals.                                                    *)
(*                                                                         *)
(* React runs the effects of a commit before it handles the next click or  *)
(* timer callback, so a handler is enabled only when no effect is pending. *)
(* An effect whose dependencies changed is recorded as pending and runs as *)
(* its own step; the cleanup of its previous run is part of that step.     *)
(* A throw in an effect or in the render unmounts the component (the       *)
(* repository installs no error boundary), which runs the cleanups.        *)
(***************************************************************************)
VARIABLES
  algorithm, input, action,   \* props (lines 31-37)
  env,                        \* the free identifiers that resolve
  currentStep, steps, isAutoPlaying, result,   \* useState, lines 38-41
  timers,                     \* the intervals armed and not cleared
  interval,                   \* `interval` of the last autoplay-effect run (0: undefined)
  pendingLoad, pendingAuto,   \* effects whose dependencies changed
  mounted,                    \* the component is mounted
  loads,                      \* number of traces loaded so far
  outcome,                    \* how the last generateSteps call ended
  staleTick,                  \* a tick of an interval armed before the last load moved the cursor
  last,                       \* the last operation
  budget,                     \* user events left (bounded-input specification)
  currentView, state,         \* CryptoLearningTool: useState, lines 23-33
  panel,                      \* InputPanel: useState, lines 30-31 (NoPanel: not mounted)
  isPlaying, intervalId,      \* part_001 variant: useState, lines 27-28
  captured                    \* part_001 variant: intervalId in the closure of the registered cleanup

vars == <<algorithm, input, action, env, currentStep, steps, isAutoPlaying,
          result, timers, interval, pendingLoad, pendingAuto, mounted, loads,
          outcome, staleTick, last, budget, currentView, state, panel,
          isPlaying, intervalId, captured>>

\* the state of CryptoLearningTool and InputPanel
toolVars == <<currentView, state, panel>>

\* the hook state only the part_001 variant has
variantVars == <<isPlaying, intervalId, captured>>

props == <<algorithm, input, action>>

\* exampleInputs.aes of InputPanel.tsx: 'Hello, this is a secret message!'
SampleText ==
  <<72, 101, 108, 108, 111, 44, 32, 116, 104, 105, 115, 32, 105, 115, 32, 97,
    32, 115, 101, 99, 114, 101, 116, 32, 109, 101, 115, 115, 97, 103, 101, 33>>

\* a single character, a full chunk, and the longest input of the model
Inputs == {Substring(SampleText, 0, n) : n \in {1, ChunkSize, MaxInputLen}}

\* the three supported identifiers and one of the catalogue's others
Algorithms == SupportedAlgorithms \cup {"rsa"}

Actions == {"encrypt", "decrypt", "both"}

Total == Len(steps)

\* the render body: steps[currentStep].title throws when the cursor is past a
\* non-empty trace (lines 1538-1549, 1617)
Renders(stepList, cursor) == Len(stepList) = 0 \/ cursor < Len(stepList)

\* Cleared with the cleanup's clearInterval left out
ClearedNothing == timers

\* clearInterval(interval) of the autoplay effect's cleanup
Cleared == {t \in timers : t.id # interval}

\* InputPanel is not mounted
NoPanel == [mounted |-> FALSE, input |-> <<>>, action |-> "encrypt"]

\* the tool after handleStartProcess(input, action): the view in which it
\* mounts StepVisualizer (CryptoLearningTool lines 40-48, 133-142)
Visualizing(a, i, m) ==
  /\ currentView = "visualize"
  /\ state = [algorithm |-> a, action |-> m, input |-> i, currentStep |-> 0,
              steps |-> <<>>, result |-> <<>>, isProcessing |-> TRUE]
  /\ panel = NoPanel

\* useState of CryptoLearningTool (lines 23-31)
InitialState ==
  [algorithm |-> "null", action |-> "encrypt", input |-> <<>>,
   currentStep |-> 0, steps |-> <<>>, result |-> <<>>, isProcessing |-> FALSE]

\* the tool as it is constructed: the 'select' view
NoTool == currentView = "select" /\ state = InitialState /\ panel = NoPanel

\* the part_001 variant is not the component that is mounted
NoVariant == isPlaying = FALSE /\ intervalId = 0 /\ captured = 0

Init ==
  /\ algorithm \in Algorithms
  /\ input \in Inputs
  /\ action \in Actions
  /\ env \in SUBSET FreeIdentifiers
  /\ currentStep = 0
  /\ steps = <<>>
  /\ isAutoPlaying = FALSE
  /\ result = <<>>
  /\ timers = {}
  /\ interval = 0
  /\ pendingLoad = TRUE
  /\ pendingAuto = TRUE
  /\ mounted = TRUE
  /\ loads = 0
  /\ outcome = "none"
  /\ staleTick = FALSE
  /\ last = "mount"
  /\ budget = MaxUserEvents
  /\ Visualizing(algorithm, input, action)
  /\ NoVariant

Idle == mounted /\ ~pendingLoad /\ ~pendingAuto

\* a handler that sets currentStep to c: the render that follows throws when c
\* is past the trace, otherwise the autoplay effect is due when c changed
SetCurrentStep(c) ==
  /\ currentStep' = c
  /\ IF Renders(steps, c)
     THEN /\ mounted' = TRUE
          /\ pendingAuto' = (c # currentStep)
          /\ timers' = timers
     ELSE /\ mounted' = FALSE
          /\ pendingAuto' = FALSE
          /\ timers' = Cleared
  /\ UNCHANGED <<algorithm, input, action, env, steps, isAutoPlaying, result,
                 interval, pendingLoad, loads, outcome>>

\* NextStep with the button left in place at the last step
NextStepAtEnd ==
  /\ Idle /\ Total > 0
  /\ SetCurrentStep(currentStep + 1)
  /\ last' = "next"
  /\ UNCHANGED staleTick

\* "Next Step" button, rendered while currentStep < steps.length - 1
NextStep ==
  /\ Idle /\ Total > 0
  /\ currentStep < Total - 1
  /\ SetCurrentStep(currentStep + 1)
  /\ last' = "next"
  /\ UNCHANGED staleTick

\* "Previous Step" button, disabled at currentStep = 0
PreviousStep ==
  /\ Idle /\ Total > 0
  /\ currentStep # 0
  /\ SetCurrentStep(Max(0, currentStep - 1))
  /\ last' = "previous"
  /\ UNCHANGED staleTick

\* one dot per step: onClick={() => setCurrentStep(index)}
JumpTo(index) ==
  /\ Idle /\ Total > 0
  /\ index \in 0..(Total - 1)
  /\ SetCurrentStep(index)
  /\ last' = "jumpTo"
  /\ UNCHANGED staleTick

\* Auto Play / Pause button: setIsAutoPlaying(!isAutoPlaying)
TogglePlay ==
  /\ Idle /\ Total > 0
  /\ isAutoPlaying' = ~isAutoPlaying
  /\ pendingAuto' = TRUE
  /\ last' = "togglePlay"
  /\ UNCHANGED <<algorithm, input, action, env, currentStep, steps, result,
                 timers, interval, pendingLoad, mounted, loads, outcome,
                 staleTick>>

\* Tick with the callback advancing by two
TickSkipping(t) ==
  /\ Idle
  /\ t \in timers
  /\ SetCurrentStep(currentStep + 2)
  /\ staleTick' = (staleTick \/ t.gen < loads)
  /\ last' = "tick"

\* the interval callback: setCurrentStep(prev => prev + 1)
Tick(t) ==
  /\ Idle
  /\ t \in timers
  /\ SetCurrentStep(currentStep + 1)
  /\ staleTick' = (staleTick \/ t.gen < loads)
  /\ last' = "tick"

\* the component is rendered again with a changed request (one of the props
\* algorithm, input and action differs), the case the dependency array
\* [algorithm, input, action] of the trace-load effect exists for;
\* CryptoLearningTool itself mounts a fresh component for every request
PropsChange(a, i, m) ==
  /\ Idle
  /\ loads < MaxLoads
  /\ Cardinality({k \in 1..3 : <<a, i, m>>[k] # props[k]}) = 1
  /\ algorithm' = a /\ input' = i /\ action' = m
  /\ pendingLoad' = TRUE
  /\ last' = "propsChange"
  /\ UNCHANGED <<env, currentStep, steps, isAutoPlaying, result, timers,
                 interval, pendingAuto, mounted, loads, outcome, staleTick>>

\* LoadedResult with the index one short of the last step
LoadedResultOffByOne(generatedSteps) ==
  IF Len(generatedSteps) > 1
  THEN generatedSteps[Len(generatedSteps) - 1].output
  ELSE result

\* the result the trace-load effect stores
LoadedResult(generatedSteps) ==
  IF Len(generatedSteps) > 0
  THEN generatedSteps[Len(generatedSteps)].output
  ELSE result

\* useEffect(..., [algorithm, input, action]), lines 44-50
LoadEffect ==
  /\ mounted /\ pendingLoad /\ ~pendingAuto
  /\ \E call \in {generateSteps(algorithm, input, action, env)} :
         /\ outcome' = call.kind
         /\ IF call.kind = "throw"
            THEN /\ mounted' = FALSE
                 /\ timers' = Cleared
                 /\ pendingAuto' = FALSE
                 /\ UNCHANGED <<steps, result, loads>>
            ELSE /\ steps' = call.steps
                 /\ result' = LoadedResult(call.steps)
                 /\ loads' = loads + 1
                 /\ IF Renders(call.steps, currentStep)
                    THEN /\ mounted' = TRUE
                         /\ pendingAuto' = (Len(call.steps) # Len(steps))
                         /\ timers' = timers
                    ELSE /\ mounted' = FALSE
                         /\ pendingAuto' = FALSE
                         /\ timers' = Cleared
  /\ pendingLoad' = FALSE
  /\ last' = "loadEffect"
  /\ UNCHANGED <<algorithm, input, action, env, currentStep, isAutoPlaying,
                 interval, staleTick>>

\* AutoplayEffect without the else-branch that clears isAutoPlaying
AutoplayEffectNoClear ==
  /\ mounted /\ pendingAuto
  /\ IF isAutoPlaying /\ currentStep < Total - 1
     THEN LET id == 1 + Cardinality(Cleared)
          IN  /\ timers' = Cleared \cup {[id |-> id, gen |-> loads]}
              /\ interval' = id
     ELSE /\ timers' = Cleared
          /\ interval' = 0
  /\ isAutoPlaying' = isAutoPlaying
  /\ pendingAuto' = FALSE
  /\ last' = "autoplayEffect"
  /\ UNCHANGED <<algorithm, input, action, env, currentStep, steps, result,
                 pendingLoad, mounted, loads, outcome, staleTick>>

\* useEffect(..., [isAutoPlaying, currentStep, steps.length]), lines 52-62
AutoplayEffect ==
  /\ mounted /\ pendingAuto
  /\ IF isAutoPlaying /\ currentStep < Total - 1
     THEN LET id == 1 + Cardinality(Cleared)
          IN  /\ timers' = Cleared \cup {[id |-> id, gen |-> loads]}
              /\ interval' = id
              /\ isAutoPlaying' = isAutoPlaying
              /\ pendingAuto' = FALSE
     ELSE /\ timers' = Cleared
          /\ interval' = 0
          /\ IF currentStep >= Total - 1
             THEN /\ isAutoPlaying' = FALSE
                  /\ pendingAuto' = isAutoPlaying
             ELSE /\ isAutoPlaying' = isAutoPlaying
                  /\ pendingAuto' = FALSE
  /\ last' = "autoplayEffect"
  /\ UNCHANGED <<algorithm, input, action, env, currentStep, steps, result,
                 pendingLoad, mounted, loads, outcome, staleTick>>

TimerTick == \E t \in timers : Tick(t)

\* handleComplete with the "View Results" button rendered at every step
handleCompleteAnywhere ==
  /\ Idle /\ Total > 0
  /\ state' = [state EXCEPT !.steps = steps, !.result = result,
                            !.isProcessing = FALSE]
  /\ currentView' = "results"
  /\ mounted' = FALSE
  /\ timers' = Cleared
  /\ last' = "handleComplete"
  /\ UNCHANGED <<algorithm, input, action, env, currentStep, steps,
                 isAutoPlaying, result, interval, pendingLoad, pendingAuto,
                 loads, outcome, staleTick, budget, panel, variantVars>>

\* "View Results" button, rendered in place of "Next Step" when
\* currentStep < steps.length - 1 is false (lines 1714-1737):
\* handleComplete calls onComplete(steps, result) (lines 1532-1534), the
\* tool's handleProcessComplete stores both and shows the results view
\* (CryptoLearningTool lines 50-58), which unmounts the component
handleComplete ==
  /\ Idle /\ Total > 0
  /\ ~(currentStep < Total - 1)
  /\ state' = [state EXCEPT !.steps = steps, !.result = result,
                            !.isProcessing = FALSE]
  /\ currentView' = "results"
  /\ mounted' = FALSE
  /\ timers' = Cleared
  /\ last' = "handleComplete"
  /\ UNCHANGED <<algorithm, input, action, env, currentStep, steps,
                 isAutoPlaying, result, interval, pendingLoad, pendingAuto,
                 loads, outcome, staleTick, budget, panel, variantVars>>

\* every handler, callback and effect of the component; none of them counts
\* the user's events
Next ==
  \/ NextStep /\ UNCHANGED <<budget, toolVars, variantVars>>
  \/ PreviousStep /\ UNCHANGED <<budget, toolVars, variantVars>>
  \/ \E index \in 0..(Total - 1) :
        JumpTo(index) /\ UNCHANGED <<budget, toolVars, variantVars>>
  \/ TogglePlay /\ UNCHANGED <<budget, toolVars, variantVars>>
  \/ \E a \in Algorithms, i \in Inputs, m \in Actions :
        PropsChange(a, i, m) /\ UNCHANGED <<budget, toolVars, variantVars>>
  \/ TimerTick /\ UNCHANGED <<budget, toolVars, variantVars>>
  \/ LoadEffect /\ UNCHANGED <<budget, toolVars, variantVars>>
  \/ AutoplayEffect /\ UNCHANGED <<budget, toolVars, variantVars>>
  \/ handleComplete

Spec == Init /\ [][Next]_vars

(***************************************************************************)
(* The sequencer on the trace loaded at mount, with a bounded number of     *)
(* user events and a fair timer: once the budget is spent there is no      *)
(* further input, the armed interval keeps firing and React keeps running  *)
(* the pending effects.  The specification starts where the mount's        *)
(* trace-load effect has stored a non-empty trace.                         *)
(***************************************************************************)
LiveInit ==
  /\ algorithm \in SupportedAlgorithms
  /\ input \in Inputs
  /\ action \in Actions
  /\ env \in SUBSET FreeIdentifiers
  /\ \E call \in {generateSteps(algorithm, input, action, env)} :
       /\ call.kind = "return"
       /\ steps = call.steps
       /\ result = call.steps[Len(call.steps)].output
  /\ currentStep = 0
  /\ isAutoPlaying = FALSE
  /\ timers = {}
  /\ interval = 0
  /\ pendingLoad = FALSE
  /\ pendingAuto = TRUE
  /\ mounted = TRUE
  /\ loads = 1
  /\ outcome = "return"
  /\ staleTick = FALSE
  /\ last = "loadEffect"
  /\ budget = MaxUserEvents
  /\ Visualizing(algorithm, input, action)
  /\ NoVariant

\* a user event spends one unit of the budget
Spend == budget > 0 /\ budget' = budget - 1 /\ UNCHANGED <<toolVars, variantVars>>

LiveTick == TimerTick /\ UNCHANGED <<budget, toolVars, variantVars>>
LiveAutoplayEffect == AutoplayEffect /\ UNCHANGED <<budget, toolVars, variantVars>>

LiveNext ==
  \/ NextStep /\ Spend
  \/ PreviousStep /\ Spend
  \/ \E index \in 0..(Total - 1) : JumpTo(index) /\ Spend
  \/ TogglePlay /\ Spend
  \/ LiveTick
  \/ LiveAutoplayEffect

LiveSpec ==
  /\ LiveInit /\ [][LiveNext]_vars
  /\ WF_vars(LiveTick) /\ WF_vars(LiveAutoplayEffect)

(***************************************************************************)
(* Properties.                                                             *)
(***************************************************************************)
InBounds == currentStep \in 0..(Total - 1)

\* the trace in steps is the one generateSteps returned for the current props
TraceLoaded == ~pendingLoad /\ outcome = "return"

AtEnd == Total > 0 /\ currentStep = Total - 1

\* C1: on a loaded trace of at least one step, no next, previous, jumpTo,
\* togglePlay, timer tick or effect run moves the cursor out of 0..total-1.
C1_CursorStaysInBounds ==
  [][(steps' = steps /\ Total > 0 /\ InBounds) => InBounds']_vars

\* C1 witness: a timer tick has just moved the cursor onto the last step.
C1_Witness == last = "tick" /\ AtEnd

C3_NoStaleTick == ~staleTick

\* C4 (as claimed): after the trace-load effect has stored a regenerated
\* trace, currentStep is 0.
C4_LoadResetsCursor ==
  (last = "loadEffect" /\ outcome = "return") => currentStep = 0

\* C5: at most one interval is armed at any time, and once the effects have
\* run with playing off no interval is armed, so no tick can move the cursor
\* until playing is switched on again.
C5_PauseCancelsTimer ==
  /\ Cardinality(timers) <= 1
  /\ (Idle /\ ~isAutoPlaying) => timers = {}

\* C5 witness: togglePlay has just switched playing off while an interval is
\* armed.
C5_Witness == last = "togglePlay" /\ ~isAutoPlaying /\ timers # {}

\* C6 (as claimed): a dispatch on an identifier outside aes, des, checksum
\* fails with an error and returns no step list.
C6_UnsupportedFails ==
  (last = "loadEffect" /\ algorithm \notin SupportedAlgorithms)
    => outcome = "throw"

\* C7: a trace returned by the dispatcher has 4 steps for checksum, 18 for des
\* and 14 for aes, whatever the input and the mode.
C7_TraceLength ==
  TraceLoaded =>
    /\ algorithm = "checksum" => Total = 4
    /\ algorithm = "des" => Total = 18
    /\ algorithm = "aes" => Total = 14

\* C7 witness: an aes trace for encrypt has been returned and loaded.
C7_Witness ==
  TraceLoaded /\ last = "loadEffect" /\ algorithm = "aes"
    /\ action = "encrypt" /\ Total = 14

\* C8 (as claimed): in every returned trace the output of step i equals the
\* input of step i+1, for every adjacent pair.
C8_ChainEverywhere ==
  TraceLoaded => \A i \in 1..(Total - 1) : steps[i].output = steps[i + 1].input

\* the adjacent pairs (i, i+1) of a trace over which the data is handed on
\* unchanged
ChainedPairs ==
  CASE algorithm = "checksum" -> {1, 2}
    [] algorithm = "des" -> {5 * r - 1 : r \in 1..3} \cup {5 * r : r \in 1..3}
    [] algorithm = "aes" -> 3..(Total - 1)
    [] OTHER -> {}

\* C8 (amended): the output of step i equals the input of step i+1 for the
\* checksum pairs 1-2 and 2-3 (and 3-4 when the input is a single chunk), for
\* the des pairs Key XOR - S-Box and S-Box - P-Box of each round, and for every
\* aes pair from step 3 on.
C8_ChainOnDataSteps ==
  TraceLoaded =>
    /\ \A i \in ChainedPairs : steps[i].output = steps[i + 1].input
    /\ (algorithm = "checksum" /\ Len(input) <= ChunkSize)
         => steps[3].output = steps[4].input

\* C8 witness: an aes trace is loaded whose MixColumns output of round 2 is
\* the AddRoundKey input.
C8_Witness ==
  TraceLoaded /\ algorithm = "aes" /\ Total = 14
    /\ steps[10].output = steps[11].input /\ steps[1].output # steps[2].input

\* C9: the result stored for a loaded trace is the output of its last step;
\* for aes that output is the final state after the last AddRoundKey, base64
\* encoded for encrypt.
C9_ResultIsLastOutput ==
  (TraceLoaded /\ Total > 0) =>
    /\ result = steps[Total].output
    /\ algorithm = "aes" =>
         steps[Total].output =
           AESFinalResult(AddRoundKey(steps[Total].input, RoundKey(3)), action)

\* C9 witness: an aes encrypt trace is loaded and its result is set.
C9_Witness ==
  TraceLoaded /\ algorithm = "aes" /\ action = "encrypt" /\ Total > 0
    /\ result # <<>> /\ result = Base64(AddRoundKey(steps[Total].input, RoundKey(3)))

\* C10 (as claimed): the k-th step of every returned trace has id k.
C10_IdsArePositions ==
  TraceLoaded => \A k \in 1..Total : steps[k].id = 10 * k


(***************************************************************************)
(* The dispatcher on its own: generateSteps applied to a sequence of       *)
(* requests.  The first request is drawn by GenInit; every call repeats    *)
(* the previous request or differs from it in one of algorithm, input and  *)
(* mode, and `last` records which.  steps and result are what the          *)
(* trace-load effect stores for the call (lines 45-49).                    *)
(***************************************************************************)
TestText == <<84, 69, 83, 84>>                                \* 'TEST'
HighText == <<65535, 65535>>                                  \* two U+FFFF code units
GreekText == <<945, 946, 947, 948, 949, 950, 951, 952>>       \* 'αβγδεζηθ'
GreekText2 == <<946, 946, 947, 948, 949, 950, 951, 952>>      \* 'ββγδεζηθ'

\* the longest of the sequencer's inputs with its characters in reverse order
ReversedText == Reverse(Substring(SampleText, 0, MaxInputLen))

\* the sequencer's inputs, the empty text, the documented example, text
\* outside ASCII, a text longer than either block, an already padded block
\* and a reordering of one of the texts
GenInputs ==
  Inputs \cup {<<>>, TestText, HighText, GreekText, GreekText2,
               Substring(SampleText, 0, AESBlock + 1),
               PadEnd(TestText, DESBlock), ReversedText}

GenInit ==
  /\ algorithm \in Algorithms
  /\ input \in GenInputs
  /\ action \in Actions
  /\ env \in SUBSET FreeIdentifiers
  /\ currentStep = 0
  /\ steps = <<>>
  /\ isAutoPlaying = FALSE
  /\ result = <<>>
  /\ timers = {}
  /\ interval = 0
  /\ pendingLoad = FALSE
  /\ pendingAuto = FALSE
  /\ mounted = TRUE
  /\ loads = 0
  /\ outcome = "none"
  /\ staleTick = FALSE
  /\ last = "request"
  /\ budget = MaxUserEvents
  /\ NoTool
  /\ NoVariant

\* which argument of the call differs from the previous request
Changed(a, i, m) ==
  IF a # algorithm THEN "algorithm"
  ELSE IF i # input THEN "input"
  ELSE IF m # action THEN "mode"
  ELSE "repeat"

\* Dispatch with the generators pushing onto the step list of the earlier call
DispatchAppending(a, i, m) ==
  /\ loads < MaxLoads
  /\ Cardinality({k \in 1..3 : <<a, i, m>>[k] # props[k]}) <= 1
  /\ algorithm' = a /\ input' = i /\ action' = m
  /\ \E call \in {generateSteps(a, i, m, env)} :
       /\ outcome' = call.kind
       /\ steps' = steps \o call.steps
       /\ result' = IF call.kind = "return" THEN LoadedResult(call.steps)
                    ELSE <<>>
  /\ loads' = loads + 1
  /\ last' = Changed(a, i, m)
  /\ UNCHANGED <<env, currentStep, isAutoPlaying, timers, interval,
                 pendingLoad, pendingAuto, mounted, staleTick, budget,
                 toolVars, variantVars>>

\* const generatedSteps = generateSteps(); setSteps; setResult
Dispatch(a, i, m) ==
  /\ loads < MaxLoads
  /\ Cardinality({k \in 1..3 : <<a, i, m>>[k] # props[k]}) <= 1
  /\ algorithm' = a /\ input' = i /\ action' = m
  /\ \E call \in {generateSteps(a, i, m, env)} :
       /\ outcome' = call.kind
       /\ steps' = call.steps
       /\ result' = IF call.kind = "return" THEN LoadedResult(call.steps)
                    ELSE <<>>
  /\ loads' = loads + 1
  /\ last' = Changed(a, i, m)
  /\ UNCHANGED <<env, currentStep, isAutoPlaying, timers, interval,
                 pendingLoad, pendingAuto, mounted, staleTick, budget,
                 toolVars, variantVars>>

GenNext == \E a \in Algorithms, i \in GenInputs, m \in Actions : Dispatch(a, i, m)

GenSpec == GenInit /\ [][GenNext]_vars

\* a call of the dispatcher has returned a trace of the named generator
Generated(a) == loads > 0 /\ algorithm = a /\ outcome = "return"

HexDigits == (48..57) \cup (65..70)                           \* 0-9, A-F

\* the number a string of uppercase hexadecimal digits denotes
RECURSIVE HexValue(_)
HexValue(s) ==
  IF Len(s) = 0 THEN 0
  ELSE LET c == s[Len(s)]
       IN  16 * HexValue(SubSeq(s, 1, Len(s) - 1))
             + (IF c <= 57 THEN c - 48 ELSE c - 55)

\* the last four characters of the checksum trace's final output
ReportedHex == SubSeq(steps[4].output, Len(steps[4].output) - 3, Len(steps[4].output))

\* C11: for every input the checksum generator's total is the sum of all
\* chunk sums (the sum of all character codes), and the checksum it reports
\* is (~totalSum) & 0xFFFF: a value in 0..65535 with
\* (totalSum mod 65536) + checksum = 65535; 'TEST' gives the chunk sum 320
\* and the checksum 0xFEBF, the empty input the total 0 and 0xFFFF.
C11_ChecksumComplement ==
  Generated("checksum") =>
    /\ TotalSum(input) = Sum(input)
    /\ Checksum(input) \in 0..65535
    /\ (Sum(input) % 65536) + Checksum(input) = 65535
    /\ \A k \in 1..4 : ReportedHex[k] \in HexDigits
    /\ HexValue(ReportedHex) = Checksum(input)
    /\ input = TestText =>
         /\ steps[3].output = <<51, 50, 48>>                       \* '320'
         /\ ReportedHex = <<70, 69, 66, 70>>                       \* 'FEBF'
    /\ input = <<>> =>
         /\ TotalSum(input) = 0
         /\ ReportedHex = <<70, 70, 70, 70>>                       \* 'FFFF'

\* a total above 65535, where the mask matters
C11_Witness ==
  /\ Generated("checksum")
  /\ input = HighText
  /\ Sum(input) > 65535
  /\ HexValue(ReportedHex) = 1

\* C12 (as stated): the final step's output snapshot of the checksum trace,
\* and hence the result, is exactly the four zero-padded uppercase
\* hexadecimal digits of the checksum.
C12_HexOnly ==
  Generated("checksum") =>
    /\ Len(steps[4].output) = 4
    /\ \A k \in 1..4 : steps[4].output[k] \in HexDigits
    /\ HexValue(steps[4].output) = Checksum(input)
    /\ result = steps[4].output

\* C12 (amended): the final step's output snapshot of the checksum trace,
\* and hence the result, is the label 'Checksum: ' followed by exactly the
\* four zero-padded uppercase hexadecimal digits of the checksum.
C12_LabelledHex ==
  Generated("checksum") =>
    /\ Len(steps[4].output) = 14
    /\ SubSeq(steps[4].output, 1, 10)
         = <<67, 104, 101, 99, 107, 115, 117, 109, 58, 32>>   \* 'Checksum: '
    /\ \A k \in 11..14 : steps[4].output[k] \in HexDigits
    /\ HexValue(SubSeq(steps[4].output, 11, 14)) = Checksum(input)
    /\ result = steps[4].output

\* a checksum below 0x1000, where the zero padding shows
C12_Witness ==
  /\ Generated("checksum")
  /\ Checksum(input) < 4096
  /\ SubSeq(result, 11, 14) = <<48, 48, 48, 49>>              \* '0001'

\* the block after the final reversal (finalResult, line 307) of the
\* Feistel-style trace in steps
FinalBlock == Reverse(steps[Len(steps)].input)

\* C13: in encrypt mode the Feistel-style trace's result is a reversible
\* encoding of the final-permutation output: two calls whose 8-character
\* final blocks differ never report the same result.
C13_ResultDeterminesBlock ==
  [][(/\ Generated("des") /\ action = "encrypt"
      /\ Generated("des")' /\ action' = "encrypt"
      /\ FinalBlock' # FinalBlock)
       => result' # result]_vars

\* block is the first n characters of text, right-padded with spaces
IsPadded(block, text, n) ==
  /\ Len(block) = n
  /\ \A k \in 1..n : block[k] = (IF k <= Len(text) THEN text[k] ELSE 32)

\* C14: the Feistel-style generator works on exactly 8 characters and the
\* SPN-style generator on exactly 16: the first N characters of the input,
\* right-padded with spaces when it is shorter; padding a padded block
\* changes nothing, and the data handed to the last step still has N
\* characters.
C14_BlockPadding ==
  /\ Generated("des") =>
       /\ IsPadded(steps[1].input, input, 8)
       /\ DESPadded(steps[1].input) = steps[1].input
       /\ Len(steps[Len(steps)].input) = 8
  /\ Generated("aes") =>
       /\ IsPadded(steps[1].input, input, 16)
       /\ AESPadded(steps[1].input) = steps[1].input
       /\ Len(steps[Len(steps)].input) = 16

\* a non-empty input shorter than the block, padded
C14_Witness ==
  /\ Generated("des")
  /\ Len(input) \in 1..7
  /\ steps[1].input[8] = 32
  /\ steps[1].input[1] = input[1]

C16_ChecksumIgnoresMode ==
  [][(Generated("checksum") /\ Generated("checksum")' /\ input' = input)
       => (steps' = steps /\ result' = result)]_vars

\* a checksum call that differs from the call before it in the mode only
C16_Witness ==
  /\ last = "mode"
  /\ loads > 1
  /\ Generated("checksum")
  /\ action = "decrypt"
  /\ Len(input) > ChunkSize

(***************************************************************************)
(* CryptoLearningTool with its InputPanel: the four views and the handlers *)
(* that move between them.  In the 'visualize' view the tool mounts        *)
(* StepVisualizer, whose trace-load effect calls generateSteps on the      *)
(* request held in `state`: a returned trace can be handed back through    *)
(* onComplete, a throw is caught by nobody (the effect has no try/catch,   *)
(* the repository installs no error boundary) and unmounts the whole tree; *)
(* `mounted` is the tree here.  handleError is passed to StepVisualizer as *)
(* onError, a prop no StepVisualizer variant declares or calls.            *)
(***************************************************************************)
\* exampleInputs.des: 'Secret123'
ExampleDES ==
  <<83, 101, 99, 114, 101, 116, 49, 50, 51>>

\* exampleInputs.checksum: 'This is sample data for checksum calculation.'
ExampleChecksum ==
  <<84, 104, 105, 115, 32, 105, 115, 32, 115, 97, 109, 112, 108, 101, 32,
    100, 97, 116, 97, 32, 102, 111, 114, 32, 99, 104, 101, 99, 107, 115,
    117, 109, 32, 99, 97, 108, 99, 117, 108, 97, 116, 105, 111, 110, 46>>

\* exampleInputs (InputPanel.tsx lines 23-27)
exampleInputs(a) ==
  CASE a = "aes" -> SampleText
    [] a = "des" -> ExampleDES
    [] a = "checksum" -> ExampleChecksum

\* WhiteSpace and LineTerminator code units, the characters trim() strips
WhiteSpace ==
  {9, 10, 11, 12, 13, 32, 160, 5760, 8232, 8233, 8239, 8287, 12288, 65279}
    \cup (8192..8202)

RECURSIVE TrimStart(_)
TrimStart(s) ==
  IF Len(s) > 0 /\ s[1] \in WhiteSpace THEN TrimStart(Tail(s)) ELSE s

RECURSIVE TrimEnd(_)
TrimEnd(s) ==
  IF Len(s) > 0 /\ s[Len(s)] \in WhiteSpace
  THEN TrimEnd(SubSeq(s, 1, Len(s) - 1)) ELSE s

\* String.prototype.trim
Trim(s) == TrimEnd(TrimStart(s))

\* what the user types into the textarea: nothing, spaces, a tab, a newline
\* and a no-break space, 'TEST' inside whitespace, 'TEST'
PanelTexts ==
  {<<>>, <<32, 32>>, <<9, 10, 160>>, <<32>> \o TestText \o <<10>>, TestText}

\* every variable of StepVisualizer the tool's handlers leave alone
visualizerVars ==
  <<algorithm, input, action, env, currentStep, steps, isAutoPlaying, result,
    timers, interval, pendingLoad, pendingAuto, loads, outcome, staleTick,
    budget>>

ToolInit ==
  /\ NoTool
  /\ NoVariant
  /\ algorithm = "null"
  /\ input = <<>>
  /\ action = "encrypt"
  /\ env \in SUBSET FreeIdentifiers
  /\ currentStep = 0
  /\ steps = <<>>
  /\ isAutoPlaying = FALSE
  /\ result = <<>>
  /\ timers = {}
  /\ interval = 0
  /\ pendingLoad = FALSE
  /\ pendingAuto = FALSE
  /\ mounted = TRUE
  /\ loads = 0
  /\ outcome = "none"
  /\ staleTick = FALSE
  /\ last = "mount"
  /\ budget = MaxUserEvents

\* InputPanel mounts with useState(exampleInputs[algorithm]), useState('encrypt')
PanelFor(a) == [mounted |-> TRUE, input |-> exampleInputs(a), action |-> "encrypt"]

\* a handler of the tool ran: the tree stays mounted, StepVisualizer's own
\* variables are not part of this specification
ToolStep(name) ==
  /\ mounted
  /\ last' = name
  /\ UNCHANGED <<mounted, visualizerVars, variantVars>>

\* CryptoLearningTool lines 35-38, from a card of AlgorithmSelector
handleAlgorithmSelect(a) ==
  /\ currentView = "select"
  /\ state' = [state EXCEPT !.algorithm = a]
  /\ currentView' = "input"
  /\ panel' = PanelFor(a)
  /\ ToolStep("handleAlgorithmSelect")

\* the textarea's onChange: setInput(e.target.value)
setInput(text) ==
  /\ currentView = "input" /\ panel.mounted
  /\ panel' = [panel EXCEPT !.input = text]
  /\ UNCHANGED <<currentView, state>>
  /\ ToolStep("setInput")

\* the radio group, rendered when algorithm !== 'checksum'
setAction(m) ==
  /\ currentView = "input" /\ panel.mounted
  /\ state.algorithm # "checksum"
  /\ panel' = [panel EXCEPT !.action = m]
  /\ UNCHANGED <<currentView, state>>
  /\ ToolStep("setAction")

\* CryptoLearningTool lines 40-48
handleStartProcess(i, m) ==
  /\ state' = [state EXCEPT !.input = i, !.action = m, !.isProcessing = TRUE]
  /\ currentView' = "visualize"
  /\ panel' = NoPanel

\* handleStart without the guard on the trimmed text
handleStartUnguarded ==
  /\ currentView = "input" /\ panel.mounted
  /\ handleStartProcess(Trim(panel.input), panel.action)
  /\ ToolStep("handleStart")

\* InputPanel lines 33-37: if (input.trim()) onStart(input.trim(), action)
handleStart ==
  /\ currentView = "input" /\ panel.mounted
  /\ IF Trim(panel.input) # <<>>
     THEN handleStartProcess(Trim(panel.input), panel.action)
     ELSE UNCHANGED toolVars
  /\ ToolStep("handleStart")

\* onBack of InputPanel: setCurrentView('select')
panelBack ==
  /\ currentView = "input" /\ panel.mounted
  /\ currentView' = "select"
  /\ panel' = NoPanel
  /\ UNCHANGED state
  /\ ToolStep("panelBack")

\* onBack of StepVisualizer: setCurrentView('input')
visualizerBack ==
  /\ currentView = "visualize"
  /\ currentView' = "input"
  /\ panel' = PanelFor(state.algorithm)
  /\ UNCHANGED state
  /\ ToolStep("visualizerBack")

\* CryptoLearningTool lines 50-58, from handleComplete of StepVisualizer
\* (onComplete(steps, result)) on the trace it generated for the request
handleProcessComplete ==
  /\ currentView = "visualize"
  /\ \E call \in {generateSteps(state.algorithm, state.input, state.action, env)} :
       /\ call.kind = "return"
       /\ Len(call.steps) > 0
       /\ state' = [state EXCEPT !.steps = call.steps,
                                 !.result = call.steps[Len(call.steps)].output,
                                 !.isProcessing = FALSE]
  /\ currentView' = "results"
  /\ UNCHANGED panel
  /\ ToolStep("handleProcessComplete")

\* generateSteps throws in the trace-load effect of the mounted
\* StepVisualizer: nothing catches it and React unmounts the tree
processingThrows ==
  /\ mounted
  /\ currentView = "visualize"
  /\ generateSteps(state.algorithm, state.input, state.action, env).kind = "throw"
  /\ mounted' = FALSE
  /\ last' = "processingThrows"
  /\ UNCHANGED <<toolVars, visualizerVars, variantVars>>

\* handleReset without setCurrentView('select')
handleResetInPlace ==
  /\ currentView = "results"
  /\ state' = InitialState
  /\ UNCHANGED <<currentView, panel>>
  /\ ToolStep("handleReset")

\* CryptoLearningTool lines 60-71, onReset of ResultsDisplay
handleReset ==
  /\ currentView = "results"
  /\ state' = InitialState
  /\ currentView' = "select"
  /\ UNCHANGED panel
  /\ ToolStep("handleReset")

\* onViewSteps of ResultsDisplay: setCurrentView('visualize')
viewSteps ==
  /\ currentView = "results"
  /\ state.algorithm # "null"
  /\ currentView' = "visualize"
  /\ UNCHANGED <<state, panel>>
  /\ ToolStep("viewSteps")

\* CryptoLearningTool lines 73-83; passed as onError (line 140), which
\* nothing calls, so it is no disjunct of ToolNext
handleError ==
  /\ currentView = "visualize"
  /\ state' = [state EXCEPT !.isProcessing = FALSE]
  /\ currentView' = "input"
  /\ panel' = PanelFor(state.algorithm)
  /\ ToolStep("handleError")

ToolNext ==
  \/ \E a \in SupportedAlgorithms : handleAlgorithmSelect(a)
  \/ \E text \in PanelTexts : setInput(text)
  \/ \E m \in Actions : setAction(m)
  \/ handleStart
  \/ panelBack
  \/ visualizerBack
  \/ handleProcessComplete
  \/ processingThrows
  \/ handleReset
  \/ viewSteps

ToolSpec == ToolInit /\ [][ToolNext]_vars

\* the text is empty or consists of whitespace only
IsBlank(s) == \A k \in 1..Len(s) : s[k] \in WhiteSpace

\* t is text p without the whitespace around it
IsTrimmed(t, p) ==
  /\ t # <<>>
  /\ t[1] \notin WhiteSpace
  /\ t[Len(t)] \notin WhiteSpace
  /\ \E i \in 0..Len(p) :
       /\ SubSeq(p, i + 1, i + Len(t)) = t
       /\ IsBlank(SubSeq(p, 1, i))
       /\ IsBlank(SubSeq(p, i + Len(t) + 1, Len(p)))

\* C17: handleStart on an empty or whitespace-only text does not call
\* onStart: the tool stays in the input view with its state (and the
\* panel's) unchanged; any other text is passed on trimmed and non-empty,
\* with the panel's action, and the tool moves to the visualize view.
C17_BlankInputRejected ==
  [][last' = "handleStart" =>
       IF IsBlank(panel.input)
       THEN /\ currentView' = currentView
            /\ currentView' # "results"
            /\ state' = state
            /\ panel' = panel
       ELSE /\ currentView' = "visualize"
            /\ IsTrimmed(state'.input, panel.input)
            /\ state'.action = panel.action
            /\ state'.algorithm = state.algorithm]_vars

\* handleStart has run on a whitespace-only text and the tool is still in
\* the input view
C17_Witness ==
  /\ last = "handleStart"
  /\ currentView = "input"
  /\ panel.mounted
  /\ panel.input # <<>>
  /\ IsBlank(panel.input)
  /\ state.input = <<>>

\* C18: a processing failure is recoverable and corrupts nothing: after
\* generateSteps has failed on the request, the tree is still mounted, the
\* tool is back in the input view with isProcessing false, and algorithm,
\* input, steps and result are as they were.
C18_FailureReturnsToInput ==
  [][last' = "processingThrows" =>
       /\ mounted'
       /\ currentView' = "input"
       /\ ~state'.isProcessing
       /\ state'.algorithm = state.algorithm
       /\ state'.input = state.input
       /\ state'.steps = state.steps
       /\ state'.result = state.result]_vars

(***************************************************************************)
(* The StepVisualizer variant of src/unnamed/part_001: mock traces loaded  *)
(* asynchronously, and an autoplay effect that keeps the interval's id in  *)
(* the state intervalId.                                                   *)
(*                                                                         *)
(* The autoplay effect depends on [isPlaying, steps.length].  Its cleanup  *)
(* closes over the intervalId of the render in which the effect ran, that  *)
(* is the value before the body's setIntervalId: `captured`.  An interval  *)
(* callback closes over steps.length of that render: the field len of a    *)
(* timer.  pendingLoad is a processData() in flight (the 500 ms await);    *)
(* the parent changes the request only when none is in flight.             *)
(***************************************************************************)
\* runAES, runDES, runChecksum: the titles of the mock steps and the result
MockRun(a) ==
  CASE a = "aes" ->
         [steps |-> << [title |-> "Initial Round"], [title |-> "Add Round Key"],
                       [title |-> "Sub Bytes"], [title |-> "Shift Rows"],
                       [title |-> "Mix Columns"], [title |-> "Final Round"] >>,
          result |-> "AES Encrypted Result"]
    [] a = "des" ->
         [steps |-> << [title |-> "Initial Permutation"], [title |-> "Round 1"],
                       [title |-> "Round 2"], [title |-> "Final Permutation"] >>,
          result |-> "DES Encrypted Result"]
    [] a = "checksum" ->
         [steps |-> << [title |-> "Initial State"], [title |-> "Processing Data"],
                       [title |-> "Final Checksum"] >>,
          result |-> "Checksum Result"]

\* the requests of the variant's parent: the mock traces ignore the text
VariantInputs == {TestText, ExampleDES}

VariantInit ==
  /\ algorithm \in Algorithms
  /\ input \in VariantInputs
  /\ action \in Actions
  /\ env = {}
  /\ currentStep = 0
  /\ steps = <<>>
  /\ isAutoPlaying = FALSE
  /\ result = ""
  /\ timers = {}
  /\ interval = 0
  /\ pendingLoad = TRUE
  /\ pendingAuto = FALSE
  /\ mounted = TRUE
  /\ loads = 0
  /\ outcome = "none"
  /\ staleTick = FALSE
  /\ last = "mount"
  /\ budget = MaxUserEvents
  /\ NoTool
  /\ isPlaying = FALSE
  /\ intervalId = 0
  /\ captured = 0

\* what the variant's actions leave alone
variantRest == <<env, isAutoPlaying, interval, outcome, staleTick, budget, toolVars>>

\* clearInterval(intervalId) of the registered cleanup: if (intervalId) ...
VariantCleared == {t \in timers : t.id # captured}

\* window.setInterval returns an id no armed interval and no reference holds
FreshId ==
  CHOOSE id \in 1..(Cardinality(timers) + 3) :
    /\ id \notin {t.id : t \in timers} \cup {intervalId, captured}
    /\ \A other \in 1..(id - 1) :
         other \in {t.id : t \in timers} \cup {intervalId, captured}

\* the render that follows a change of the cursor or the trace:
\* steps[currentStep].title (line 135) throws past a non-empty trace, which
\* unmounts the component and runs the registered cleanup
VariantRender(stepList, cursor, autoDue) ==
  IF Renders(stepList, cursor)
  THEN /\ mounted' = TRUE
       /\ pendingAuto' = autoDue
       /\ timers' = timers
  ELSE /\ mounted' = FALSE
       /\ pendingAuto' = FALSE
       /\ timers' = VariantCleared

\* the controls are rendered once steps.length > 0, effects are flushed first
VariantReady == mounted /\ ~pendingAuto /\ Total > 0

\* processData() resolves (lines 32-49): setSteps, setResult, onComplete;
\* an identifier outside the three sets nothing, an unmounted component
\* ignores the updates
variantLoaded ==
  /\ pendingLoad
  /\ ~(mounted /\ pendingAuto)
  /\ pendingLoad' = FALSE
  /\ loads' = loads + 1
  /\ last' = "loaded"
  /\ IF mounted /\ algorithm \in SupportedAlgorithms
     THEN /\ steps' = MockRun(algorithm).steps
          /\ result' = MockRun(algorithm).result
          /\ VariantRender(MockRun(algorithm).steps, currentStep,
                           Len(MockRun(algorithm).steps) # Len(steps))
     ELSE UNCHANGED <<steps, result, mounted, pendingAuto, timers>>
  /\ UNCHANGED <<algorithm, input, action, currentStep, variantVars, variantRest>>

\* useEffect(..., [isPlaying, steps.length]), lines 54-70: the cleanup of the
\* previous run, then the body
variantAutoplayEffect ==
  /\ mounted /\ pendingAuto
  /\ IF isPlaying
     THEN /\ timers' = VariantCleared \cup {[id |-> FreshId, len |-> Len(steps)]}
          /\ intervalId' = FreshId
     ELSE /\ timers' = {t \in VariantCleared : t.id # intervalId}
          /\ intervalId' = 0
  /\ captured' = intervalId
  /\ pendingAuto' = FALSE
  /\ last' = "autoplayEffect"
  /\ UNCHANGED <<algorithm, input, action, currentStep, steps, result,
                 pendingLoad, mounted, loads, isPlaying, variantRest>>

\* the interval callback (line 57), on the steps.length it closed over; the
\* update is ignored once the component is unmounted
variantTick(t) ==
  /\ t \in timers
  /\ ~(mounted /\ pendingAuto)
  /\ last' = "tick"
  /\ IF mounted
     THEN LET c == IF currentStep < t.len - 1 THEN currentStep + 1
                   ELSE currentStep
          IN  /\ currentStep' = c
              /\ VariantRender(steps, c, FALSE)
     ELSE UNCHANGED <<currentStep, mounted, pendingAuto, timers>>
  /\ UNCHANGED <<algorithm, input, action, steps, result, pendingLoad, loads,
                 variantVars, variantRest>>

\* handleNext (lines 72-74), button disabled at the last step
handleNext ==
  /\ VariantReady
  /\ currentStep # Total - 1
  /\ currentStep' = Min(currentStep + 1, Total - 1)
  /\ last' = "handleNext"
  /\ UNCHANGED <<algorithm, input, action, steps, result, timers, pendingLoad,
                 pendingAuto, mounted, loads, variantVars, variantRest>>

\* togglePlay (lines 80-82)
togglePlay ==
  /\ VariantReady
  /\ isPlaying' = ~isPlaying
  /\ pendingAuto' = TRUE
  /\ last' = "togglePlay"
  /\ UNCHANGED <<algorithm, input, action, currentStep, steps, result, timers,
                 pendingLoad, mounted, loads, intervalId, captured,
                 variantRest>>

\* resetVisualization (lines 84-87), button disabled at currentStep 0
resetVisualization ==
  /\ VariantReady
  /\ currentStep # 0
  /\ currentStep' = 0
  /\ isPlaying' = FALSE
  /\ pendingAuto' = isPlaying
  /\ last' = "resetVisualization"
  /\ UNCHANGED <<algorithm, input, action, steps, result, timers, pendingLoad,
                 mounted, loads, intervalId, captured, variantRest>>

\* the parent renders the component with one prop of the request changed:
\* the load effect (deps [algorithm, input, action, onComplete]) starts
\* processData()
variantPropsChange(a, i, m) ==
  /\ mounted /\ ~pendingAuto /\ ~pendingLoad
  /\ loads < MaxLoads
  /\ Cardinality({k \in 1..3 : <<a, i, m>>[k] # props[k]}) = 1
  /\ algorithm' = a /\ input' = i /\ action' = m
  /\ pendingLoad' = TRUE
  /\ last' = "propsChange"
  /\ UNCHANGED <<currentStep, steps, result, timers, pendingAuto, mounted,
                 loads, variantVars, variantRest>>

\* the parent unmounts the component (onBack, line 153): React runs the
\* registered cleanup (lines 65-69)
variantUnmount ==
  /\ mounted /\ ~pendingAuto
  /\ mounted' = FALSE
  /\ timers' = VariantCleared
  /\ last' = "unmount"
  /\ UNCHANGED <<algorithm, input, action, currentStep, steps, result,
                 pendingLoad, pendingAuto, loads, variantVars, variantRest>>

variantTimerTick == \E t \in timers : variantTick(t)

VariantNext ==
  \/ variantLoaded
  \/ variantAutoplayEffect
  \/ variantTimerTick
  \/ handleNext
  \/ togglePlay
  \/ resetVisualization
  \/ \E a \in Algorithms, i \in VariantInputs, m \in Actions :
       variantPropsChange(a, i, m)
  \/ variantUnmount

\* the timer keeps firing, React runs a pending effect, the await resolves
VariantSpec ==
  /\ VariantInit
  /\ [][VariantNext]_vars
  /\ WF_vars(variantTimerTick)
  /\ WF_vars(variantAutoplayEffect)
  /\ WF_vars(variantLoaded)

\* C19: in the part_001 variant, when playing is on and the cursor has
\* reached total-1, isPlaying becomes false without a further user action.
C19_PlayClearsAtEnd ==
  (mounted /\ isPlaying /\ Total > 0 /\ currentStep = Total - 1) ~> ~isPlaying

\* C20: in the part_001 variant at most one interval is armed at any time,
\* and none remains armed once the component is unmounted (nor, while it is
\* mounted, beside the one the last effect run armed).
C20_TimerTiedToLifetime ==
  /\ Cardinality(timers) <= 1
  /\ ~mounted => timers = {}

(***************************************************************************)
(* Round structure of the cipher traces (GenSpec)                          *)
(***************************************************************************)
\* position in the DES trace of round r's P-Box and Feistel steps
PBoxAt(r) == 1 + 5 * r
FeistelAt(r) == 2 + 5 * r

\* the halves named in a Feistel step's 'Lk: xxxx, Rk: yyyy' snapshot
LeftOf(snapshot) == SubSeq(snapshot, 5, 8)
RightOf(snapshot) == SubSeq(snapshot, 15, 18)

\* the block entering and the block leaving round r
BlockBefore(r) == LeftOf(steps[FeistelAt(r)].input) \o RightOf(steps[FeistelAt(r)].input)
BlockAfter(r) ==
  IF r < DESRounds
  THEN LeftOf(steps[FeistelAt(r + 1)].input) \o RightOf(steps[FeistelAt(r + 1)].input)
  ELSE steps[Len(steps)].input

XorCycled(half, p) ==
  [i \in 1..Len(half) |-> BitXor(half[i], p[((i - 1) % Len(p)) + 1])]

\* C21: in each of the 3 Feistel rounds, with (L, R) the 4-character halves of
\* the block entering the round and P the P-Box output, the block leaving the
\* round is R followed by L XOR P (P cycled to 4 characters).
C21_FeistelRound ==
  Generated("des") =>
    \A r \in 1..DESRounds :
      /\ SubSeq(BlockAfter(r), 1, 4) = SubSeq(BlockBefore(r), 5, 8)
      /\ SubSeq(BlockAfter(r), 5, 8) =
           XorCycled(SubSeq(BlockBefore(r), 1, 4), steps[PBoxAt(r)].output)

\* position in the AES trace of round r's Row-Shift, Column-Mix and Key-Combine
\* steps (rounds 1 and 2 have four steps, round 3 has three)
ShiftRowsAt(r) == 1 + 4 * r
MixColumnsAt(r) == 2 + 4 * r
AddRoundKeyAt(r) == IF r < AESRounds THEN 3 + 4 * r ELSE 2 + 4 * r

\* row r of the row-major 4x4 grid rotated left by r positions
RowsRotatedLeft(grid) ==
  [k \in 1..Len(grid) |->
     LET r == (k - 1) \div 4
         c == (k - 1) % 4
     IN  grid[4 * r + ((c + r) % 4) + 1]]

\* C22: in every round the Row-Shift step's output is its input, read as a
\* row-major 4x4 grid, with row r rotated left by r positions.
C22_RowShift ==
  Generated("aes") =>
    \A r \in 1..AESRounds :
      steps[ShiftRowsAt(r)].output = RowsRotatedLeft(steps[ShiftRowsAt(r)].input)

\* C23: in rounds 1 and 2 a Column-Mix step is emitted that maps every state
\* byte c of the Row-Shift output to (2*c + round) mod 256 and whose output is
\* the state entering Key-Combine; in round 3 no Column-Mix step is emitted
\* and Key-Combine takes the Row-Shift output unchanged.
C23_ColumnMix ==
  Generated("aes") =>
    /\ \A r \in 1..(AESRounds - 1) :
         LET mix == steps[MixColumnsAt(r)]
         IN  /\ mix.title = "Step " \o ToString(MixColumnsAt(r))
                              \o ": MixColumns (Round " \o ToString(r) \o ")"
             /\ mix.input = steps[ShiftRowsAt(r)].output
             /\ Len(mix.output) = Len(mix.input)
             /\ \A k \in 1..Len(mix.input) :
                  mix.output[k] = (2 * mix.input[k] + r) % 256
             /\ steps[AddRoundKeyAt(r)].input = mix.output
    /\ Len(steps) = AddRoundKeyAt(AESRounds)
    /\ AddRoundKeyAt(AESRounds) = ShiftRowsAt(AESRounds) + 1
    /\ steps[ShiftRowsAt(AESRounds)].title =
         "Step " \o ToString(ShiftRowsAt(AESRounds))
           \o ": ShiftRows (Round " \o ToString(AESRounds) \o ")"
    /\ steps[AddRoundKeyAt(AESRounds)].title =
         "Step " \o ToString(AddRoundKeyAt(AESRounds))
           \o ": AddRoundKey (Round " \o ToString(AESRounds) \o ")"
    /\ steps[AddRoundKeyAt(AESRounds)].input = steps[ShiftRowsAt(AESRounds)].output

\* a trace of 'TEST' whose Column-Mix steps changed the state in both rounds
C23_Witness ==
  /\ Generated("aes")
  /\ input = TestText
  /\ \A r \in 1..(AESRounds - 1) :
       steps[MixColumnsAt(r)].output # steps[MixColumnsAt(r)].input
  /\ steps[AddRoundKeyAt(AESRounds)].input = steps[ShiftRowsAt(AESRounds)].output

\* position in the DES trace of round r's Expansion and Key XOR steps
ExpansionAt(r) == 5 * r - 2
KeyXorAt(r) == 5 * r - 1

\* the k-th subkey listed in the Key Schedule step's output
ScheduleEntry(k) ==
  SubSeq(steps[2].output, (Len(DESKey) + Len(SepArrow)) * (k - 1) + 1,
         (Len(DESKey) + Len(SepArrow)) * (k - 1) + Len(DESKey))

\* the subkey named in round r's Key XOR step, 'E(Rk): xxxxx (+) Kr: kkkkkkkk'
UsedSubkey(r) ==
  SubSeq(steps[KeyXorAt(r)].input,
         Len(steps[KeyXorAt(r)].input) - Len(DESKey) + 1,
         Len(steps[KeyXorAt(r)].input))

\* the expansion of round r, after the 'E(Rk): ' label
Expanded(r) ==
  SubSeq(steps[ExpansionAt(r)].output, 8, Len(steps[ExpansionAt(r)].output))

KeyPlus(n) == [j \in 1..Len(DESKey) |-> (DESKey[j] + n) % 256]

\* the Key Schedule step lists exactly 3 subkeys of the fixed key, and round r
\* combines the expansion with the r-th of them
ThreeSubkeys ==
  /\ steps[2].input = DESKey
  /\ steps[2].output =
       ScheduleEntry(1) \o SepArrow \o ScheduleEntry(2) \o SepArrow
         \o ScheduleEntry(3) \o LitK16
  /\ \A r \in 1..DESRounds :
       /\ UsedSubkey(r) = ScheduleEntry(r)
       /\ steps[KeyXorAt(r)].output = XorCycled(Expanded(r), UsedSubkey(r))

\* C24: the Key Schedule step derives exactly 3 subkeys from the fixed
\* 8-character key, and the subkey combined with the expansion in round r
\* (r = 1, 2, 3) is the key with r added to each character code mod 256.
C24_SubkeyAddsRound ==
  Generated("des") =>
    /\ ThreeSubkeys
    /\ \A r \in 1..DESRounds : UsedSubkey(r) = KeyPlus(r)

\* C24 (amended): the Key Schedule step derives exactly 3 subkeys from the
\* fixed 8-character key, and the subkey combined with the expansion in round
\* r (r = 1, 2, 3) is the key with r - 1 added to each character code mod 256,
\* so round 1 uses the key itself.
C24_SubkeyAddsRoundLessOne ==
  Generated("des") =>
    /\ ThreeSubkeys
    /\ \A r \in 1..DESRounds : UsedSubkey(r) = KeyPlus(r - 1)

\* a trace of 'TEST' whose three rounds used three different subkeys, the
\* first of them the key itself
C24_Witness ==
  /\ Generated("des")
  /\ input = TestText
  /\ UsedSubkey(1) = DESKey
  /\ UsedSubkey(2) # UsedSubkey(1)
  /\ UsedSubkey(3) # UsedSubkey(2)
  /\ steps[KeyXorAt(1)].output # Expanded(1)

(***************************************************************************)
(* Chunking and summing of the checksum trace (GenSpec)                    *)
(***************************************************************************)
\* C25: for an input of length n the Chunking step yields ceil(n/8) chunks,
\* every chunk but the last has exactly 8 characters, the last has between 1
\* and 8, and the chunks concatenated in order are the input (no padding).
C25_Chunking ==
  Generated("checksum") =>
    LET chunks == Chunks(input)
        n == Len(input)
    IN  /\ steps[1].input = input
        /\ steps[1].output = Join(chunks, SepBar)
        /\ Len(chunks) = (n + ChunkSize - 1) \div ChunkSize
        /\ \A k \in 1..(Len(chunks) - 1) : Len(chunks[k]) = ChunkSize
        /\ Len(chunks) > 0 => Len(chunks[Len(chunks)]) \in 1..ChunkSize
        /\ Join(chunks, <<>>) = input

\* a text of two full chunks and a last chunk of one character
C25_Witness ==
  /\ Generated("checksum")
  /\ Len(input) = 2 * ChunkSize + 1
  /\ Len(Chunks(input)) = 3
  /\ Len(Chunks(input)[3]) = 1

(***************************************************************************)
(* The mode's influence on the cipher traces (GenSpec)                     *)
(***************************************************************************)
\* two traces agree on every step's id, title and input snapshot, and on
\* every output snapshot except the last one
AgreeButLastOutput(s, t) ==
  /\ Len(s) = Len(t)
  /\ \A k \in 1..Len(s) :
       /\ s[k].id = t[k].id
       /\ s[k].title = t[k].title
       /\ s[k].input = t[k].input
       /\ k < Len(s) => s[k].output = t[k].output

\* C26: for both cipher generators the mode influences only the last step's
\* output snapshot: the traces of one input for two modes have the same step
\* count and agree on every id, title, input snapshot and on every output
\* snapshot except the last, and the decrypt and both traces are identical.
C26_ModeOnlyInLastOutput ==
  [][(/\ loads > 0
      /\ last' = "mode"
      /\ algorithm \in {"aes", "des"}
      /\ outcome = "return"
      /\ outcome' = "return")
     => /\ AgreeButLastOutput(steps, steps')
        /\ ({action, action'} = {"decrypt", "both"} => steps' = steps)]_vars

\* the second of two requests that differ in the mode only, for encrypt: the
\* last output is the base64 text, longer than the 16-character state
C26_Witness ==
  /\ loads = 2
  /\ last = "mode"
  /\ Generated("aes")
  /\ action = "encrypt"
  /\ input = TestText
  /\ Len(steps[Len(steps)].output) > AESBlock

(***************************************************************************)
(* Completion and autoplay of the rich variant (Spec)                      *)
(***************************************************************************)
\* C27: onComplete, and so the tool's transition to the results view, fires
\* only while the cursor is at total-1 of a non-empty trace; the steps and
\* the result it hands over satisfy result = output of the last step, and the
\* results view is never entered with an empty step list.
C27_CompleteOnlyAtEnd ==
  [][(last' = "handleComplete" \/ currentView' # currentView)
     => /\ last' = "handleComplete"
        /\ currentView' = "results"
        /\ Total > 0
        /\ currentStep = Total - 1
        /\ state'.steps = steps
        /\ state'.steps # <<>>
        /\ state'.result = steps[Total].output]_vars

\* the results view was entered from the last step of a DES trace
C27_Witness ==
  /\ last = "handleComplete"
  /\ currentView = "results"
  /\ algorithm = "des"
  /\ currentStep = Total - 1
  /\ Len(state.steps) = 18
  /\ state.result = state.steps[18].output

(***************************************************************************)
(* The tool's view and algorithm (ToolSpec)                                *)
(***************************************************************************)
\* C28: after every event of the tool (it starts in the 'select' view),
\* whenever the current view is not 'select' the algorithm is one of 'aes',
\* 'des', 'checksum'; the algorithm becomes null only through reset, which
\* also returns the view to 'select'.
C28_AlgorithmSetOutsideSelect ==
  [][/\ currentView' # "select" => state'.algorithm \in SupportedAlgorithms
     /\ (state.algorithm # "null" /\ state'.algorithm = "null")
          => (last' = "handleReset" /\ currentView' = "select")]_vars

\* a reset from the results view has cleared the algorithm
C28_Witness ==
  /\ last = "handleReset"
  /\ currentView = "select"
  /\ state = InitialState

\* C29: during autoplay without user navigation the cursor moves only by
\* timer ticks, and each tick advances it by exactly one and not past
\* total-1, so every index from the cursor at which play was started up to
\* total-1 is visited in increasing order, none skipped or visited twice.
C29_TickAdvancesByOne ==
  [][(last' \notin {"next", "previous", "jumpTo"} /\ currentStep' # currentStep)
     => /\ last' = "tick"
        /\ isAutoPlaying
        /\ currentStep' = currentStep + 1
        /\ currentStep' <= Total - 1]_vars

\* a tick in the middle of a run: playing is still on and steps remain
C29_Witness ==
  /\ last = "tick"
  /\ isAutoPlaying
  /\ currentStep = 2
  /\ currentStep < Total - 1
  /\ timers # {}

\* the two texts have the same characters, each as often
SameCodes(s, t) ==
  /\ Len(s) = Len(t)
  /\ \A c \in {s[k] : k \in 1..Len(s)} \cup {t[k] : k \in 1..Len(t)} :
       Cardinality({k \in 1..Len(s) : s[k] = c})
         = Cardinality({k \in 1..Len(t) : t[k] = c})

\* C30: the checksum depends only on the multiset of the input's character
\* codes: the total of the chunk sums is the sum of all character codes
\* wherever the chunk boundaries fall, the reported checksum is the 16-bit
\* complement of that sum, and a reordering of the input's characters yields
\* the same checksum.
C30_ChecksumOfMultiset ==
  [][/\ Generated("checksum")' =>
          /\ TotalSum(input') = Sum(input')
          /\ (Sum(input') % 65536) + HexValue(ReportedHex') = 65535
     /\ (/\ Generated("checksum") /\ Generated("checksum")'
         /\ SameCodes(input, input'))
          => /\ steps'[4].output = steps[4].output
             /\ result' = result]_vars

\* the second of two requests, for the first one's text reversed, so that the
\* chunk boundary falls between other characters
C30_Witness ==
  /\ loads = 2
  /\ last = "input"
  /\ Generated("checksum")
  /\ input = ReversedText
  /\ Len(Chunks(input)) = 2
  /\ Chunks(input)[1] # Chunks(Reverse(input))[1]
  /\ TotalSum(input) = TotalSum(Reverse(input))
====
